---- MODULE Spec2Model ----
(***************************************************************************)
(* Model of quickpin_api/qpi.py: the QPI session (construction and login), *)
(* the chunked, paced profile submission and the search request.           *)
(* The transport (requests.post / requests.get) is the environment: each   *)
(* request issued is logged, and its outcome is chosen nondeterministically*)
(* among a network failure and a response with a status and a body.        *)
(***************************************************************************)
EXTENDS Integers, Sequences, FiniteSets, TLC

\* ---------------------------------------------------------------- bounds
MaxLen == 3        \* longest list of profiles / identifiers submitted
MaxChunk == 3      \* largest chunk_size tried (the smallest is -1)
MaxInterval == 1   \* largest interval (seconds) tried

\* ------------------------------------------------------------ input sets
None == "<None>"                       \* Python's None
Tokens == {None, "", "t1"}             \* token argument of QPI.__init__
ServerTokens == {"s1"}                 \* tokens the login endpoint hands out
Statuses == {200, 404, 500}            \* terminal HTTP statuses
Bodies == {"r1", "r2"}                 \* opaque response bodies
Idents == {"a", "b"}                   \* usernames / user ids
Sites == {"twitter"}                   \* site argument of the wrappers
Usernames == {"u"}                     \* username argument of QPI.__init__
Passwords == {"p"}                     \* password argument of QPI.__init__
Queries == {"acme"}
OptStr == {None, "x"}                  \* an optional string argument
ChunkSizes == -1 .. MaxChunk
Intervals == 0 .. MaxInterval

DefaultRpp == 100
DefaultPage == 1

SeqsUpTo(S, n) == UNION {[1..k -> S] : k \in 0..n}

EmptyMap == <<>>                       \* {} : a dict with no key
HasKey(d, k) == k \in DOMAIN d

\* --------------------------------------------------------------- errors
NoError == [type |-> "none", message |-> ""]
QPIError(message) == [type |-> "QPIError", message |-> message]
HTTPError == [type |-> "HTTPError", message |-> ""]
ConnectionError == [type |-> "ConnectionError", message |-> ""]
ValueError == [type |-> "ValueError", message |-> ""]

\* ------------------------------------------------------------ transport
\* An outcome of one request: a network failure (the call raises) or a
\* response carrying a status, a raw body and a parsed JSON object.
NetFailure == [net |-> FALSE, status |-> 0, content |-> "", json |-> EmptyMap]
Response(status, content, json) ==
    [net |-> TRUE, status |-> status, content |-> content, json |-> json]

LoginJson == {EmptyMap} \cup {("token" :> t) : t \in ServerTokens}
                        \cup {("error" :> "denied")}
LoginOutcomes == {NetFailure} \cup
    {Response(s, "", j) : s \in Statuses, j \in LoginJson}
PostOutcomes == {NetFailure} \cup
    {Response(s, IF s = 200 THEN b ELSE "", EmptyMap) : s \in Statuses, b \in Bodies}

\* response.raise_for_status(): raises HTTPError on a 4xx or 5xx status
raise_for_status_never(status) == FALSE
raise_for_status_5xx(status) == status >= 500 /\ status < 600
raise_for_status(status) == status >= 400 /\ status < 600

\* ----------------------------------------------------------------- state
VARIABLES
    pc,             \* position of the single thread of control
    token,          \* self.token
    headers,        \* self.headers
    authenticated,  \* self.authenticated (FALSE while the attribute is unset)
    handed,         \* the constructor returned: the caller holds the session
    givenToken,     \* the token argument of the constructor
    authPosts,      \* requests issued to auth_url, in order
    loginOutcome,   \* outcome of the login request (NetFailure before any)
    op,             \* the operation running, or the last one that ran
    args,           \* its arguments: profiles, stub, chunk_size, interval
    rng,            \* range(0, len(profiles), chunk_size), a sequence
    it,             \* number of loop iterations completed
    responses,      \* the local list `responses`
    bar,            \* progress reported to the progress bar
    posts,          \* requests issued to profile_url by this run, in order
    outcomes,       \* what the transport answered to them, in order
    sleeps,         \* number of time.sleep(interval) calls of this run
    elapsed,        \* seconds slept by this run
    query,          \* arguments of search
    gets,           \* requests issued to search_url by this call
    result,         \* what the operation returned to its caller
    err             \* exception that ended the last operation, or NoError

sessionVars == <<token, headers, authenticated, handed, givenToken, authPosts,
                 loginOutcome>>
runVars == <<op, args, rng, it, responses, bar, posts, outcomes, sleeps,
             elapsed, query, gets, result>>
vars == <<pc, sessionVars, runVars, err>>

NoArgs == [profiles |-> <<>>, stub |-> FALSE, chunk_size |-> 1, interval |-> 0]
NoQuery == [query |-> "", type_ |-> None, facets |-> None, rpp |-> DefaultRpp,
            page |-> DefaultPage, sort |-> None]
NoResult == [returned |-> FALSE, responses |-> <<>>, response |-> None]

\* ----------------------------------------------------------- construction
\* line 64: the token is looked up only when none (or '') was supplied
NeedsLoginNoneOnly(tok) == tok = None
NeedsLogin(tok) == tok = None \/ tok = ""

\* line 67: self.headers['X-Auth'] = self.token
SetAuthHeaderGiven(hdrs, tok, given) == ("X-Auth" :> given) @@ hdrs
SetAuthHeader(hdrs, tok, given) == ("X-Auth" :> tok) @@ hdrs

\* get_token, after the response arrived: the exception it raises (NoError
\* when it returns) and the token it returns
get_token_lenient(o) ==
    IF ~o.net THEN [err |-> ConnectionError, token |-> None]
    ELSE IF raise_for_status(o.status) THEN [err |-> HTTPError, token |-> None]
    ELSE IF ~HasKey(o.json, "token") THEN [err |-> NoError, token |-> None]
    ELSE [err |-> NoError, token |-> o.json["token"]]
get_token(o) ==
    IF ~o.net THEN [err |-> ConnectionError, token |-> None]
    ELSE IF raise_for_status(o.status) THEN [err |-> HTTPError, token |-> None]
    ELSE IF ~HasKey(o.json, "token")
         THEN [err |-> QPIError("Authentication failed."), token |-> None]
    ELSE [err |-> NoError, token |-> o.json["token"]]

Init ==
    /\ pc = "new"
    /\ token = None
    /\ headers = EmptyMap
    /\ authenticated = FALSE
    /\ handed = FALSE
    /\ givenToken = None
    /\ authPosts = <<>>
    /\ loginOutcome = NetFailure
    /\ op = "none"
    /\ args = NoArgs
    /\ rng = <<>>
    /\ it = 0
    /\ responses = <<>>
    /\ bar = 0
    /\ posts = <<>>
    /\ outcomes = <<>>
    /\ sleeps = 0
    /\ elapsed = 0
    /\ query = NoQuery
    /\ gets = <<>>
    /\ result = NoResult
    /\ err = NoError

\* QPI.__init__ up to the login request (lines 55-65), and to its end
\* (lines 67-68) when a token was supplied
Construct ==
    /\ pc = "new"
    /\ \E tok \in Tokens, username \in Usernames, password \in Passwords :
        /\ givenToken' = tok
        /\ token' = tok
        /\ IF NeedsLogin(tok)
           THEN /\ authPosts' = Append(authPosts,
                        [url |-> "auth_url",
                         json |-> [email |-> username, password |-> password]])
                /\ pc' = "login"
                /\ UNCHANGED <<headers, authenticated, handed>>
           ELSE /\ headers' = SetAuthHeader(headers, tok, tok)
                /\ authenticated' = TRUE
                /\ handed' = TRUE
                /\ pc' = "ready"
                /\ UNCHANGED authPosts
    /\ UNCHANGED <<loginOutcome, runVars, err>>

\* the login response arrives: the rest of get_token (lines 78-84) and of
\* __init__ (lines 65-68)
LoginResponse ==
    /\ pc = "login"
    /\ \E o \in LoginOutcomes :
        /\ loginOutcome' = o
        /\ LET g == get_token(o) IN
           IF g.err # NoError
           THEN /\ err' = g.err
                /\ pc' = "failed"
                /\ UNCHANGED <<token, headers, authenticated, handed>>
           ELSE /\ token' = g.token
                /\ headers' = SetAuthHeader(headers, g.token, givenToken)
                /\ authenticated' = TRUE
                /\ handed' = TRUE
                /\ pc' = "ready"
                /\ err' = NoError
    /\ UNCHANGED <<givenToken, authPosts, runVars>>

\* ----------------------------------------------------- Python built-ins
Min(a, b) == IF a < b THEN a ELSE b

\* range(start, stop, step) for step # 0, as the sequence it iterates over
RECURSIVE range(_, _, _)
range(start, stop, step) ==
    IF (step > 0 /\ start < stop) \/ (step < 0 /\ start > stop)
    THEN <<start>> \o range(start + step, stop, step)
    ELSE <<>>

\* s[a:b] for a list s and indices a, b >= 0: indices past the end are clamped
Slice(s, a, b) == SubSeq(s, Min(a, Len(s)) + 1, Min(b, Len(s)))

\* ------------------------------------------------------------ submission
\* line 192: chunk_end = chunk_start + chunk_size
ChunkEndShort(chunk_start, chunk_size) == chunk_start + chunk_size - 1
ChunkEnd(chunk_start, chunk_size) == chunk_start + chunk_size

\* line 204: responses.append(response.content)
AppendResponseFront(rs, content) == <<content>> \o rs
AppendResponse(rs, content) == Append(rs, content)

\* line 205: time.sleep(interval), as the seconds it adds to the run
SleepNone(interval) == 0
Sleep(interval) == interval

\* submit_profiles up to the loop (lines 183-191), called with these arguments
EnterSubmit(name, profiles, stub, chunk_size, interval) ==
    /\ pc = "ready"
    /\ op' = name
    /\ args' = [profiles |-> profiles, stub |-> stub,
                chunk_size |-> chunk_size, interval |-> interval]
    /\ responses' = <<>>
    /\ bar' = 0
    /\ posts' = <<>>
    /\ outcomes' = <<>>
    /\ sleeps' = 0
    /\ elapsed' = 0
    /\ it' = 0
    /\ query' = NoQuery
    /\ gets' = <<>>
    /\ result' = NoResult
    /\ IF ~authenticated
       THEN /\ err' = QPIError("Please authenticate first.")
            /\ rng' = <<>>
            /\ pc' = "done"
       ELSE IF chunk_size = 0
       THEN /\ err' = ValueError        \* range() arg 3 must not be zero
            /\ rng' = <<>>
            /\ pc' = "done"
       ELSE /\ err' = NoError
            /\ rng' = range(0, Len(profiles), chunk_size)
            /\ pc' = "loop"
    /\ UNCHANGED sessionVars

Descriptors == {[username |-> "a", site |-> "twitter"],
                [upstream_id |-> "b", site |-> "instagram"]}

\* submit_profiles called by the caller itself
CallSubmitProfiles ==
    \E profiles \in SeqsUpTo(Descriptors, MaxLen), stub \in BOOLEAN,
       chunk_size \in ChunkSizes, interval \in Intervals :
        EnterSubmit("submit_profiles", profiles, stub, chunk_size, interval)

\* submit_usernames (lines 147-158)
CallSubmitUsernames ==
    \E usernames \in SeqsUpTo(Idents, MaxLen), site \in Sites, stub \in BOOLEAN,
       chunk_size \in ChunkSizes, interval \in Intervals :
        EnterSubmit("submit_usernames",
                    [i \in 1..Len(usernames) |->
                        [username |-> usernames[i], site |-> site]],
                    stub, chunk_size, interval)

\* submit_user_ids (lines 110-121)
CallSubmitUserIds ==
    \E user_ids \in SeqsUpTo(Idents, MaxLen), site \in Sites, stub \in BOOLEAN,
       chunk_size \in ChunkSizes, interval \in Intervals :
        EnterSubmit("submit_user_ids",
                    [i \in 1..Len(user_ids) |->
                        [upstream_id |-> user_ids[i], site |-> site]],
                    stub, chunk_size, interval)

\* one iteration up to the request (lines 191-202)
SubmitDispatch ==
    /\ pc = "loop"
    /\ it < Len(rng)
    /\ LET chunk_start == rng[it + 1]
           chunk_end == ChunkEnd(chunk_start, args.chunk_size)
           chunk == Slice(args.profiles, chunk_start, chunk_end)
           payload == [profiles |-> chunk, stub |-> args.stub]
       IN /\ bar' = bar + Len(chunk)
          /\ posts' = Append(posts, [url |-> "profile_url", headers |-> headers,
                                     json |-> payload])
    /\ pc' = "wait"
    /\ UNCHANGED <<sessionVars, op, args, rng, it, responses, outcomes, sleeps,
                   elapsed, query, gets, result, err>>

\* the request returns or raises (lines 199-204)
SubmitResponse ==
    /\ pc = "wait"
    /\ \E o \in PostOutcomes :
        /\ outcomes' = Append(outcomes, o)
        /\ IF ~o.net
           THEN /\ err' = ConnectionError
                /\ pc' = "done"
                /\ UNCHANGED responses
           ELSE IF raise_for_status(o.status)
           THEN /\ err' = HTTPError
                /\ pc' = "done"
                /\ UNCHANGED responses
           ELSE /\ responses' = AppendResponse(responses, o.content)
                /\ pc' = "sleep"
                /\ UNCHANGED err
    /\ UNCHANGED <<sessionVars, op, args, rng, it, bar, posts, sleeps, elapsed,
                   query, gets, result>>

\* line 205, and back to the head of the loop
SubmitSleep ==
    /\ pc = "sleep"
    /\ sleeps' = sleeps + 1
    /\ elapsed' = elapsed + Sleep(args.interval)
    /\ it' = it + 1
    /\ pc' = "loop"
    /\ UNCHANGED <<sessionVars, op, args, rng, responses, bar, posts, outcomes,
                   query, gets, result, err>>

\* line 207: the loop is over
SubmitReturn ==
    /\ pc = "loop"
    /\ it >= Len(rng)
    /\ result' = [returned |-> TRUE, responses |-> responses, response |-> None]
    /\ pc' = "done"
    /\ UNCHANGED <<sessionVars, op, args, rng, it, responses, bar, posts,
                   outcomes, sleeps, elapsed, query, gets, err>>

\* ---------------------------------------------------------------- search
\* lines 229-233: the parameters every search carries
BaseParams(q) == [k \in {"query", "rpp", "page"} |-> q[k]]

\* lines 235-240: the optional parameters the caller supplied are added
FullParams(q) ==
    LET supplied == {k \in {"type", "facets", "sort"} :
                        q[IF k = "type" THEN "type_" ELSE k] # None}
    IN  [k \in {"query", "rpp", "page"} \cup supplied |->
            q[IF k = "type" THEN "type_" ELSE k]]

\* line 234: "&".join("%s=%s" % (k, v) ...), as the set of its k=v items
ParamStr(params) == {<<k, ToString(params[k])>> : k \in DOMAIN params}

\* search up to the request (lines 226-245)
CallSearch ==
    /\ pc = "ready"
    /\ \E q \in Queries, type_ \in OptStr, facets \in OptStr, sort \in OptStr,
          rpp \in {DefaultRpp}, page \in {DefaultPage, DefaultPage + 1} :
        LET a == [query |-> q, type_ |-> type_, facets |-> facets,
                  rpp |-> rpp, page |-> page, sort |-> sort]
            param_str == ParamStr(BaseParams(a))
            params == FullParams(a)
        IN /\ query' = a
           /\ IF ~authenticated
              THEN /\ err' = QPIError("Please authenticate first.")
                   /\ gets' = <<>>
                   /\ pc' = "done"
              ELSE /\ err' = NoError
                   /\ gets' = <<[url |-> "search_url", headers |-> headers,
                                 params |-> param_str]>>
                   /\ pc' = "search"
    /\ op' = "search"
    /\ args' = NoArgs
    /\ rng' = <<>>
    /\ it' = 0
    /\ responses' = <<>>
    /\ bar' = 0
    /\ posts' = <<>>
    /\ outcomes' = <<>>
    /\ sleeps' = 0
    /\ elapsed' = 0
    /\ result' = NoResult
    /\ UNCHANGED sessionVars

\* the request returns or raises (lines 242-248)
SearchResponse ==
    /\ pc = "search"
    /\ \E o \in PostOutcomes :
        /\ outcomes' = Append(outcomes, o)
        /\ IF ~o.net
           THEN /\ err' = ConnectionError
                /\ UNCHANGED result
           ELSE IF raise_for_status(o.status)
           THEN /\ err' = HTTPError
                /\ UNCHANGED result
           ELSE /\ result' = [returned |-> TRUE, responses |-> <<>>,
                              response |-> o.content]
                /\ UNCHANGED err
    /\ pc' = "done"
    /\ UNCHANGED <<sessionVars, op, args, rng, it, responses, bar, posts,
                   sleeps, elapsed, query, gets>>

\* ---------------------------------------------------------------- caller
\* The caller has looked at what the operation returned or raised (as the
\* command line does, lines 289, 326 and 366) and holds the session for its
\* next call; the finished call's locals are gone.
CallerConsumes ==
    /\ pc = "done"
    /\ pc' = "ready"
    /\ op' = "none"
    /\ args' = NoArgs
    /\ rng' = <<>>
    /\ it' = 0
    /\ responses' = <<>>
    /\ bar' = 0
    /\ posts' = <<>>
    /\ outcomes' = <<>>
    /\ sleeps' = 0
    /\ elapsed' = 0
    /\ query' = NoQuery
    /\ gets' = <<>>
    /\ result' = NoResult
    /\ err' = NoError
    /\ UNCHANGED sessionVars

Next ==
    \/ Construct
    \/ LoginResponse
    \/ CallSubmitProfiles
    \/ CallSubmitUsernames
    \/ CallSubmitUserIds
    \/ SubmitDispatch
    \/ SubmitResponse
    \/ SubmitSleep
    \/ SubmitReturn
    \/ CallSearch
    \/ SearchResponse
    \/ CallerConsumes

Spec == Init /\ [][Next]_vars
\* ------------------------------------------------------------- properties
InSubmit == op \in {"submit_profiles", "submit_usernames", "submit_user_ids"}
Ceil(n, c) == (n + c - 1) \div c
Failed(o) == ~o.net \/ o.status < 200 \/ o.status > 299
ChunkOf(i) == posts[i].json.profiles

RECURSIVE Flatten(_)
Flatten(ss) == IF ss = <<>> THEN <<>> ELSE Head(ss) \o Flatten(Tail(ss))
Dispatched == Flatten([i \in 1..Len(posts) |-> ChunkOf(i)])

\* C1: with chunk_size C > 0 and N profiles, the chunks dispatched are
\* consecutive slices of the input: each has 1..C elements, each but the
\* ceil(N/C)-th has exactly C, their concatenation in dispatch order is a
\* prefix of the input, and a run that returns has dispatched exactly
\* ceil(N/C) chunks whose concatenation is the input.
C1_Chunking ==
    (InSubmit /\ args.chunk_size > 0) =>
        LET N == Len(args.profiles)
            C == args.chunk_size
        IN /\ Len(posts) <= Ceil(N, C)
           /\ \A i \in 1..Len(posts) :
                /\ Len(ChunkOf(i)) >= 1
                /\ Len(ChunkOf(i)) <= C
                /\ i < Ceil(N, C) => Len(ChunkOf(i)) = C
           /\ Dispatched = SubSeq(args.profiles, 1, Len(Dispatched))
           /\ (pc = "done" /\ result.returned) =>
                /\ Len(posts) = Ceil(N, C)
                /\ Dispatched = args.profiles

C1_Witness ==
    /\ InSubmit /\ pc = "done" /\ result.returned
    /\ args.chunk_size = 2 /\ Len(args.profiles) = 3
    /\ Len(posts) = 2 /\ Len(ChunkOf(2)) = 1
    /\ args.profiles[1] # args.profiles[2]

C3_NonPositiveChunkRejected ==
    (InSubmit /\ pc = "done" /\ args.chunk_size <= 0) =>
        /\ err # NoError
        /\ ~result.returned
        /\ posts = <<>>

\* C4: a session constructed with a non-empty token has issued no request to
\* the authentication endpoint and holds that token; one constructed with
\* no token or the empty string has issued exactly one login request, also
\* by the time the constructor has returned or raised.
C4_CredentialShortCircuit ==
    pc # "new" =>
        IF givenToken # None /\ givenToken # ""
        THEN authPosts = <<>> /\ token = givenToken /\ handed
        ELSE /\ Len(authPosts) = 1
             /\ authPosts[1].url = "auth_url"
             /\ handed => loginOutcome.net

C4_Witness ==
    /\ handed /\ givenToken = "" /\ Len(authPosts) = 1 /\ token \in ServerTokens

C6_SearchSendsFullParams ==
    (op = "search" /\ pc \in {"search", "done"}) =>
        /\ Len(gets) = 1
        /\ {kv[1] : kv \in gets[1].params} =
                {"query", "rpp", "page"}
                \cup (IF query.type_ # None THEN {"type"} ELSE {})
                \cup (IF query.facets # None THEN {"facets"} ELSE {})
                \cup (IF query.sort # None THEN {"sort"} ELSE {})

\* C7: a run all of whose requests succeeded returns, and what it returns
\* has one element per dispatched chunk, the i-th being the body of the
\* response to the i-th request; an empty input with chunk_size >= 1
\* returns the empty sequence with no request issued and no error.
C7_OneResponsePerChunk ==
    (InSubmit /\ pc = "done") =>
        /\ (args.chunk_size # 0 /\ \A j \in 1..Len(outcomes) : ~Failed(outcomes[j]))
                => result.returned /\ err = NoError
        /\ result.returned =>
                /\ Len(result.responses) = Len(posts)
                /\ Len(outcomes) = Len(posts)
                /\ \A i \in 1..Len(posts) :
                        result.responses[i] = outcomes[i].content
        /\ (args.profiles = <<>> /\ args.chunk_size >= 1) =>
                /\ posts = <<>>
                /\ result.returned
                /\ result.responses = <<>>
                /\ err = NoError

C7_Witness ==
    /\ InSubmit /\ pc = "done" /\ result.returned
    /\ Len(posts) = 2
    /\ result.responses = <<"r1", "r2">>

\* C8: dispatch is sequential and paced: when the k+1-th request is issued,
\* the k earlier ones have all been answered and k sleeps of interval
\* seconds have been completed, so a run of K chunks that returns has slept
\* at least K-1 times, (K-1)*interval seconds or more.
C8_Pacing ==
    InSubmit =>
        /\ Len(posts) >= 1 =>
            /\ Len(outcomes) >= Len(posts) - 1
            /\ \A j \in 1..(Len(posts) - 1) : ~Failed(outcomes[j])
            /\ sleeps >= Len(posts) - 1
            /\ elapsed >= (Len(posts) - 1) * args.interval
        /\ pc = "wait" => Len(outcomes) = Len(posts) - 1
        /\ (pc = "done" /\ result.returned /\ Len(rng) >= 1) =>
            /\ Len(posts) = Len(rng)
            /\ sleeps >= Len(rng) - 1
            /\ elapsed >= (Len(rng) - 1) * args.interval

C8_Witness ==
    /\ InSubmit /\ pc = "done" /\ result.returned
    /\ Len(posts) = 3 /\ args.interval = 1 /\ elapsed >= 2

NumSucceeded == Cardinality({j \in 1..Len(outcomes) : ~Failed(outcomes[j])})

ResolvedToken ==
    IF givenToken # None /\ givenToken # "" THEN givenToken
    ELSE loginOutcome.json["token"]

SessionIntact ==
    handed =>
        /\ authenticated
        /\ token = ResolvedToken
        /\ headers = ("X-Auth" :> token)
        /\ \A i \in 1..Len(posts) : posts[i].headers = ("X-Auth" :> token)
        /\ \A i \in 1..Len(gets) : gets[i].headers = ("X-Auth" :> token)
        /\ err # QPIError("Please authenticate first.")

\* C10: in every state of a session handed to its caller, authenticated is
\* true, the header map is exactly X-Auth = the token resolved at
\* construction, every request issued carries it, the 'Please authenticate
\* first.' error has not been raised, and no step changes the token, the
\* header map or the flag.
C10_SessionReadOnly ==
    /\ []SessionIntact
    /\ [][handed => /\ token' = token
                    /\ headers' = headers
                    /\ authenticated' = authenticated
                    /\ handed']_vars

C10_Witness ==
    /\ handed /\ givenToken = "" /\ token = "s1"
    /\ op = "search" /\ pc = "done" /\ err.type = "HTTPError"
    /\ Len(gets) = 1

====
